---------------------------- MODULE Spec2Model ----------------------------
(***************************************************************************)
(* Verification workflow of the discord-verify bot (src/iam/verify.py).    *)
(*                                                                         *)
(* The model follows the proc_* / state_* functions of iam.verify and the  *)
(* collaborators they call (iam.db, iam.mail, iam.hooks).  Each handler is *)
(* translated into the ordered list of store writes and gateway calls it   *)
(* performs; Run executes the list up to the first call that raises.       *)
(* Texts are sequences of one-character strings, so that length, lower()   *)
(* and the two regular expressions are computed and not assumed.           *)
(***************************************************************************)
EXTENDS Integers, Sequences, FiniteSets, TLC

(***************************************************************************)
(* Bounds and program constants                                            *)
(***************************************************************************)

\* config["max-verification-emails"]: default value of the send limit.
MAX_VER_EMAILS == 1

\* state_await_name: MAX_NAME_LEN = 500
MAX_NAME_LEN == 500

\* Largest value of time() the model lets the clock reach.
MaxTime == 2

\* Largest user id and largest noise given to get_code on its own.
MaxId == 6

MaxNoise == 9

\* Cap on _max_email_verify_attempts (proc_begin adds 2 without bound).
MaxLimit == 3

\* Discord ids of the members being verified and of the execs.
Members == {1}

Execs == {10}

\* Ids that admin_channel.send can give to the forwarded ID message.
MessageIds == {100}

\* Values token_bytes(64) can return.
Secrets == {"k1", "k2"}
\* Handlers that can be in progress at the same time.
TaskIds == {"a", "b"}

(***************************************************************************)
(* Option values: None is <<>>, a present value x is <<x>>.                *)
(***************************************************************************)

None == <<>>

Some(x) == <<x>>

(***************************************************************************)
(* Texts                                                                   *)
(***************************************************************************)

UpperChars == <<"A","B","C","D","E","F","G","H","I","J","K","L","M",
                "N","O","P","Q","R","S","T","U","V","W","X","Y","Z","Æ">>

LowerChars == <<"a","b","c","d","e","f","g","h","i","j","k","l","m",
                "n","o","p","q","r","s","t","u","v","w","x","y","z","æ">>

DigitChars == <<"0","1","2","3","4","5","6","7","8","9">>

Range(s) == {s[i] : i \in DOMAIN s}

\* ASCII letters: the first 26 entries of the two tables.
AsciiLetters == {UpperChars[i] : i \in 1..26} \cup {LowerChars[i] : i \in 1..26}

Digits == Range(DigitChars)

\* str.lower() on one character
LowerChar(c) ==
    IF \E i \in DOMAIN UpperChars : UpperChars[i] = c
    THEN LowerChars[CHOOSE i \in DOMAIN UpperChars : UpperChars[i] = c]
    ELSE c

\* str.lower()
Lower(s) == [i \in DOMAIN s |-> LowerChar(s[i])]

\* str(n) for a natural number n
RECURSIVE Str(_)
Str(n) == IF n < 10 THEN <<DigitChars[n + 1]>>
          ELSE Str(n \div 10) \o <<DigitChars[(n % 10) + 1]>>

\* Python's "$": end of the text, or just before one trailing newline.
Chomp(s) == IF Len(s) > 0 /\ s[Len(s)] = "\n" THEN SubSeq(s, 1, Len(s) - 1) ELSE s

AllIn(s, lo, hi, chars) == \A i \in lo..hi : s[i] \in chars

\* ZID_REGEX = r"^[zZ][0-9]{7}$"
ZidMatch(s) ==
    /\ Len(s) = 8
    /\ s[1] \in {"z", "Z"}
    /\ AllIn(s, 2, 8, Digits)

is_valid_zid(zid) == ZidMatch(zid) \/ (zid # Chomp(zid) /\ ZidMatch(Chomp(zid)))

LocalChars == AsciiLetters \cup Digits \cup {"_", ".", "+", "-"}

DomainChars == AsciiLetters \cup Digits \cup {"-"}

TailChars == AsciiLetters \cup Digits \cup {"-", "."}

\* EMAIL_REGEX = r"(^[a-zA-Z0-9_.+-]+@[a-zA-Z0-9-]+\.[a-zA-Z0-9-.]+$)"
EmailMatch(s) ==
    \E i \in {k \in 2..Len(s) : s[k] = "@"} :
    \E j \in {k \in (i + 2)..(Len(s) - 1) : s[k] = "."} :
        /\ AllIn(s, 1, i - 1, LocalChars)
        /\ AllIn(s, i + 1, j - 1, DomainChars)
        /\ AllIn(s, j + 1, Len(s), TailChars)

is_valid_email(email) ==
    EmailMatch(email) \/ (email # Chomp(email) /\ EmailMatch(Chomp(email)))

\* "@student.unsw.edu.au"
STUDENT_DOMAIN == <<"@","s","t","u","d","e","n","t",".","u","n","s","w",
                    ".","e","d","u",".","a","u">>

\* f"{zid}@student.unsw.edu.au"
StudentEmail(zid) == zid \o STUDENT_DOMAIN

\* hmac.compare_digest on two str raises TypeError unless both are ASCII.
IsAscii(s) == \A i \in DOMAIN s : s[i] \notin {"Æ", "æ"}

(***************************************************************************)
(* Member records (iam.db)                                                 *)
(***************************************************************************)

\* class State(IntEnum); the stored value None is the string "None".
AWAIT_NAME == "AWAIT_NAME"

AWAIT_UNSW == "AWAIT_UNSW"

AWAIT_ZID == "AWAIT_ZID"

AWAIT_EMAIL == "AWAIT_EMAIL"

AWAIT_CODE == "AWAIT_CODE"

AWAIT_ID == "AWAIT_ID"

AWAIT_APPROVAL == "AWAIT_APPROVAL"

NoState == "None"

State == {AWAIT_NAME, AWAIT_UNSW, AWAIT_ZID, AWAIT_EMAIL, AWAIT_CODE,
          AWAIT_ID, AWAIT_APPROVAL}

\* make_def_member_data(); now is the value of time().
make_def_member_data(now) ==
    [ name               |-> None,
      zid                |-> None,
      email              |-> None,
      email_ver          |-> FALSE,
      id_message         |-> None,
      id_ver             |-> FALSE,
      ver_exec           |-> None,
      ver_state          |-> NoState,
      ver_time           |-> now,
      email_attempts     |-> 0,
      max_email_attempts |-> MAX_VER_EMAILS ]

\* Firestore document update: only the keys of the patch change.
ApplyPatch(rec, p) ==
    [f \in DOMAIN rec |-> IF f \in DOMAIN p THEN p[f] ELSE rec[f]]

(***************************************************************************)
(* Code generator                                                          *)
(***************************************************************************)

\* hmac.new(secret, msg, "sha256").hexdigest(): a keyed hash, taken to be
\* injective in (secret, msg).
HmacHex(sec, msg) == <<"h", sec>> \o msg

\* Spacing of the doubles around user.id + noise, in units of the clock.
\* user.id is an int of Discord's id range [2^59, 2^60) and noise a float
\* (a value of time()), so Python evaluates the sum as a double.
FLOAT_SPACING == 2

\* user.id + noise as Python computes it: the double next to the exact sum.
FloatSum(id, noise) == FLOAT_SPACING * ((id + noise) \div FLOAT_SPACING)

\* get_code: user_bytes = bytes(str(user.id + noise), "utf8")
user_bytes(uid, noise) == Str(FloatSum(uid, noise))

\* get_code
get_code(sec, uid, noise) == HmacHex(sec, user_bytes(uid, noise))

(***************************************************************************)
(* Steps of a handler: store writes and calls that can raise               *)
(***************************************************************************)

Step(k, tag, patch) == [k |-> k, tag |-> tag, patch |-> patch]

\* db.set_member_data(id, rec)
Set(rec) == Step("set", "", rec)

\* db.update_member_data(id, patch)
Update(patch) == Step("update", "", patch)

\* db.get_secret(SecretID.VERIFY) establishing the secret sec
GetSecret(sec) == Step("secret", sec, <<>>)

\* mail.send_email(to, subject, code); ok is the Mailer's outcome
Mail(to, code, ok) == Step("mail", "", [to |-> to, code |-> code, ok |-> ok])

\* raise of an exception the handler does not catch
Raise(exc) == Step("raise", exc, <<>>)

\* await member.send(...)
DM(tag) == Step("dm", tag, <<>>)

\* await channel.send(...) on the admin (or invoking) channel
Chan(tag) == Step("chan", tag, <<>>)

\* await join_announce_channel.send(...)
Announce(tag) == Step("announce", tag, <<>>)

\* await invoke_message.reply(...)
Reply(tag) == Step("reply", tag, <<>>)

\* async with x.typing()
Typing == Step("typing", "", <<>>)

\* [await a.to_file() for a in attachments]
ToFiles == Step("files", "", <<>>)

\* await member.add_roles(ver_role)
AddRoles == Step("role", "", <<>>)

GatewayKinds == {"dm", "chan", "announce", "reply", "typing", "files", "role"}

\* Mutant of get_secret: a new secret is generated and stored at every call.
get_secret_Regenerate(stored, fresh) ==
    Some(fresh)

\* Database.get_secret: the content of the secret document after the call,
\* which is also the value returned.  stored: None or Some(secret); fresh:
\* the value token_bytes(64) would give.
get_secret(stored, fresh) ==
    IF stored # None THEN stored ELSE Some(fresh)

\* Result of running a handler on one member's document.
StartRun(data, sec, hasRole) ==
    [ rec     |-> data,      \* None or Some(record)
      secret  |-> sec,       \* None or Some(secret)
      role    |-> hasRole,
      dm      |-> <<>>,      \* messages sent to the member
      chan    |-> <<>>,      \* messages sent to the admin channel
      public  |-> <<>>,      \* replies and announcements in public channels
      mails   |-> <<>>,      \* delivery attempts
      granted |-> FALSE,     \* add_roles completed
      raised  |-> "",        \* exception that ended the handler
      writes  |-> 0,         \* member-store writes
      sets    |-> 0,         \* of these, set_member_data calls
      gw      |-> 0 ]        \* gateway calls made

\* One step; failAt is the index of the gateway call that raises (0: none).
DoStep(st, s, failAt) ==
    CASE s.k = "set" ->
           [st EXCEPT !.rec = Some(s.patch), !.writes = @ + 1, !.sets = @ + 1]
      [] s.k = "update" ->
           IF st.rec = None
           THEN [st EXCEPT !.raised = "MemberNotFound"]
           ELSE [st EXCEPT !.rec = Some(ApplyPatch(st.rec[1], s.patch)),
                           !.writes = @ + 1]
      [] s.k = "secret" ->
           [st EXCEPT !.secret = get_secret(st.secret, s.tag)]
      [] s.k = "mail" ->
           [st EXCEPT !.mails = Append(@, s.patch)]
      [] s.k = "raise" ->
           [st EXCEPT !.raised = s.tag]
      [] s.k \in GatewayKinds ->
           IF st.gw + 1 = failAt
           THEN [st EXCEPT !.gw = @ + 1, !.raised = "GatewayError"]
           ELSE LET t == [st EXCEPT !.gw = @ + 1] IN
                CASE s.k = "dm" -> [t EXCEPT !.dm = Append(@, s.tag)]
                  [] s.k = "chan" -> [t EXCEPT !.chan = Append(@, s.tag)]
                  [] s.k \in {"announce", "reply"} ->
                       [t EXCEPT !.public = Append(@, s.tag)]
                  [] s.k = "role" -> [t EXCEPT !.role = TRUE, !.granted = TRUE]
                  [] OTHER -> t

\* Python's sequential execution: stop at the first exception.
RECURSIVE Run(_, _, _)
Run(steps, st, failAt) ==
    IF steps = <<>> \/ st.raised # "" THEN st
    ELSE Run(Tail(steps), DoStep(st, Head(steps), failAt), failAt)

(***************************************************************************)
(* Handlers of iam.verify, as step lists.  data is the result of           *)
(* db.get_member_data: None for MemberNotFound, Some(record) otherwise.    *)
(***************************************************************************)

\* @_next_state(State.AWAIT_NAME) proc_request_name
proc_request_name == <<DM("name_prompt"), Update([ver_state |-> AWAIT_NAME])>>

\* @_next_state(State.AWAIT_UNSW) proc_request_unsw
proc_request_unsw == <<DM("unsw_prompt"), Update([ver_state |-> AWAIT_UNSW])>>

\* @_next_state(State.AWAIT_ZID) proc_request_zid
proc_request_zid == <<DM("zid_prompt"), Update([ver_state |-> AWAIT_ZID])>>

\* @_next_state(State.AWAIT_EMAIL) proc_request_email
proc_request_email == <<DM("email_prompt"), Update([ver_state |-> AWAIT_EMAIL])>>

\* @_next_state(State.AWAIT_CODE) proc_request_code
proc_request_code == <<DM("code_prompt"), Update([ver_state |-> AWAIT_CODE])>>

\* @_next_state(State.AWAIT_ID) proc_request_id
proc_request_id == <<DM("id_prompt"), Update([ver_state |-> AWAIT_ID])>>

\* proc_grant_rank(ver_role, admin_channel, join_announce_channel, member, silent)
proc_grant_rank(silent) ==
    <<AddRoles>> \o
    (IF silent THEN <<>>
     ELSE <<DM("now_verified"), Chan("is_now_verified"), Announce("welcome")>>)

\* proc_begin on a record with id_verified set.  The call
\* proc_grant_rank(ver_role, admin_channel, member, silent=True) passes three
\* positional arguments to a function of four (ver_role, admin_channel,
\* join_announce_channel, member), so Python raises TypeError before the body
\* of proc_grant_rank runs; the two sends after the call are not reached.
proc_begin_regrant ==
    <<Raise("TypeError"), DM("welcome_back"), Chan("regranted_on_request")>>

\* Mutant of proc_begin: no test of the state of an existing record.
proc_begin_NoStateTest(data, now) ==
    LET tail == <<Reply("check_dms")>> \o proc_request_name IN
    IF data = None THEN <<Set(make_def_member_data(now))>> \o tail
    ELSE LET member_data == data[1] IN
         IF member_data.id_ver THEN proc_begin_regrant
         ELSE (IF member_data.email_attempts >= member_data.max_email_attempts
               THEN <<Update([max_email_attempts |->
                                member_data.max_email_attempts + 2])>>
               ELSE <<>>) \o tail

\* Mutant of proc_begin: an existing record with no state is replaced by the
\* default record.
proc_begin_Replace(data, now) ==
    LET tail == <<Reply("check_dms")>> \o proc_request_name IN
    IF data = None THEN <<Set(make_def_member_data(now))>> \o tail
    ELSE LET member_data == data[1] IN
         IF member_data.id_ver THEN proc_begin_regrant
         ELSE IF member_data.ver_state # NoState THEN <<DM("already_undergoing")>>
         ELSE <<Set(make_def_member_data(now))>> \o tail

\* Mutant of proc_begin: a verified record is replaced by the default record
\* and verified anew.
proc_begin_ResetVerified(data, now) ==
    LET tail == <<Reply("check_dms")>> \o proc_request_name IN
    IF data = None THEN <<Set(make_def_member_data(now))>> \o tail
    ELSE LET member_data == data[1] IN
         IF member_data.id_ver THEN <<Set(make_def_member_data(now))>> \o tail
         ELSE IF member_data.ver_state # NoState THEN <<DM("already_undergoing")>>
         ELSE (IF member_data.email_attempts >= member_data.max_email_attempts
               THEN <<Update([max_email_attempts |->
                                member_data.max_email_attempts + 2])>>
               ELSE <<>>) \o tail

\* Mutant of proc_begin: a used-up limit is lowered by 2 instead of raised.
proc_begin_LowerLimit(data, now) ==
    LET tail == <<Reply("check_dms")>> \o proc_request_name IN
    IF data = None THEN <<Set(make_def_member_data(now))>> \o tail
    ELSE LET member_data == data[1] IN
         IF member_data.id_ver THEN proc_begin_regrant
         ELSE IF member_data.ver_state # NoState THEN <<DM("already_undergoing")>>
         ELSE (IF member_data.email_attempts >= member_data.max_email_attempts
               THEN <<Update([max_email_attempts |->
                                member_data.max_email_attempts - 2])>>
               ELSE <<>>) \o tail

\* proc_begin
proc_begin(data, now) ==
    LET tail == <<Reply("check_dms")>> \o proc_request_name IN
    IF data = None THEN <<Set(make_def_member_data(now))>> \o tail
    ELSE LET member_data == data[1] IN
         IF member_data.id_ver THEN proc_begin_regrant
         ELSE IF member_data.ver_state # NoState THEN <<DM("already_undergoing")>>
         ELSE (IF member_data.email_attempts >= member_data.max_email_attempts
               THEN <<Update([max_email_attempts |->
                                member_data.max_email_attempts + 2])>>
               ELSE <<>>) \o tail

\* Mutant of proc_restart: no refusal in AWAIT_ID and AWAIT_APPROVAL.
proc_restart_AnyState(data, now) ==
    IF data = None THEN <<DM("not_being_verified")>>
    ELSE LET member_data == data[1] IN
         IF member_data.id_ver THEN <<DM("already_verified")>>
         ELSE IF member_data.ver_state = NoState THEN <<DM("not_being_verified")>>
         ELSE <<Typing, Update([ver_state |-> NoState, ver_time |-> now])>>
              \o proc_request_name

\* Mutant of proc_restart: the timestamp is not written.
proc_restart_KeepTime(data, now) ==
    IF data = None THEN <<DM("not_being_verified")>>
    ELSE LET member_data == data[1] IN
         IF member_data.id_ver THEN <<DM("already_verified")>>
         ELSE IF member_data.ver_state = NoState THEN <<DM("not_being_verified")>>
         ELSE IF member_data.ver_state \in {AWAIT_ID, AWAIT_APPROVAL}
              THEN <<DM("cannot_restart")>>
         ELSE <<Typing, Update([ver_state |-> NoState])>> \o proc_request_name

\* Mutant of proc_restart: the state is tested before id_verified.
proc_restart_StateFirst(data, now) ==
    IF data = None THEN <<DM("not_being_verified")>>
    ELSE LET member_data == data[1] IN
         IF member_data.ver_state = NoState THEN <<DM("not_being_verified")>>
         ELSE IF member_data.id_ver THEN <<DM("already_verified")>>
         ELSE IF member_data.ver_state \in {AWAIT_ID, AWAIT_APPROVAL}
              THEN <<DM("cannot_restart")>>
         ELSE <<Typing, Update([ver_state |-> NoState, ver_time |-> now])>>
              \o proc_request_name

\* proc_restart
proc_restart(data, now) ==
    IF data = None THEN <<DM("not_being_verified")>>
    ELSE LET member_data == data[1] IN
         IF member_data.id_ver THEN <<DM("already_verified")>>
         ELSE IF member_data.ver_state = NoState THEN <<DM("not_being_verified")>>
         ELSE IF member_data.ver_state \in {AWAIT_ID, AWAIT_APPROVAL}
              THEN <<DM("cannot_restart")>>
         ELSE <<Typing, Update([ver_state |-> NoState, ver_time |-> now])>>
              \o proc_request_name

\* Mutant of state_await_name: the question about UNSW is skipped.
state_await_name_SkipUnsw(full_name) ==
    IF Len(full_name) > MAX_NAME_LEN THEN <<DM("name_too_long")>>
    ELSE <<Update([name |-> Some(full_name)])>> \o proc_request_zid

\* state_await_name
state_await_name(full_name) ==
    IF Len(full_name) > MAX_NAME_LEN THEN <<DM("name_too_long")>>
    ELSE <<Update([name |-> Some(full_name)])>> \o proc_request_unsw

\* Mutant of state_await_unsw: the two answers are swapped.
state_await_unsw_Swapped(answer) ==
    LET ans == Lower(answer) IN
    IF ans = <<"y">> \/ ans = <<"y", "e", "s">> THEN proc_request_email
    ELSE IF ans = <<"n">> \/ ans = <<"n", "o">> THEN proc_request_zid
    ELSE <<DM("type_y_or_n")>>

\* state_await_unsw
state_await_unsw(answer) ==
    LET ans == Lower(answer) IN
    IF ans = <<"y">> \/ ans = <<"y", "e", "s">> THEN proc_request_zid
    ELSE IF ans = <<"n">> \/ ans = <<"n", "o">> THEN proc_request_email
    ELSE <<DM("type_y_or_n")>>

\* err.notify() on a MailError: class MailError (iam.mail) defines
\* __init__ and def_handler only, so the attribute lookup raises.
MailError_notify == Raise("AttributeError")

\* Mutant of proc_send_email: the limit test is > instead of >=.
proc_send_email_OffByOne(member_data, uid, sec, email, mailOk) ==
    IF member_data.email_attempts > member_data.max_email_attempts
    THEN <<DM("too_many_emails")>>
    ELSE <<GetSecret(sec), Typing,
           Mail(email, get_code(sec, uid, member_data.ver_time), mailOk)>> \o
         (IF mailOk
          THEN <<Update([email_attempts |-> member_data.email_attempts + 1])>>
               \o proc_request_code
          ELSE <<MailError_notify, DM("email_went_wrong")>>)

\* proc_send_email
proc_send_email(member_data, uid, sec, email, mailOk) ==
    IF member_data.email_attempts >= member_data.max_email_attempts
    THEN <<DM("too_many_emails")>>
    ELSE <<GetSecret(sec), Typing,
           Mail(email, get_code(sec, uid, member_data.ver_time), mailOk)>> \o
         (IF mailOk
          THEN <<Update([email_attempts |-> member_data.email_attempts + 1])>>
               \o proc_request_code
          ELSE <<MailError_notify, DM("email_went_wrong")>>)

\* state_await_zid
state_await_zid(member_data, uid, sec, text, mailOk) ==
    LET zid == Lower(text) IN
    IF ~is_valid_zid(zid) THEN <<DM("zid_format")>>
    ELSE LET email == StudentEmail(zid) IN
         <<Update([zid |-> Some(zid), email |-> Some(email)])>>
         \o proc_send_email(member_data, uid, sec, email, mailOk)

\* state_await_email
state_await_email(member_data, uid, sec, email, mailOk) ==
    IF ~is_valid_email(email) THEN <<DM("invalid_email")>>
    ELSE <<Update([email |-> Some(email)])>>
         \o proc_send_email(member_data, uid, sec, email, mailOk)

\* Mutant of state_await_code: the zID test is inverted.
state_await_code_Inverted(member_data, uid, sec, received_code, now) ==
    LET expected_code == get_code(sec, uid, member_data.ver_time) IN
    <<GetSecret(sec)>> \o
    (IF ~IsAscii(received_code) THEN <<Raise("TypeError")>>
     ELSE IF received_code # expected_code THEN <<DM("wrong_code")>>
     ELSE <<Update([email_ver |-> TRUE, ver_time |-> now])>> \o
          (IF member_data.zid # None THEN proc_request_id
           ELSE <<Update([id_ver |-> TRUE])>> \o proc_grant_rank(FALSE)))

\* state_await_code
state_await_code(member_data, uid, sec, received_code, now) ==
    LET expected_code == get_code(sec, uid, member_data.ver_time) IN
    <<GetSecret(sec)>> \o
    (IF ~IsAscii(received_code) THEN <<Raise("TypeError")>>
     ELSE IF received_code # expected_code THEN <<DM("wrong_code")>>
     ELSE <<Update([email_ver |-> TRUE, ver_time |-> now])>> \o
          (IF member_data.zid = None THEN proc_request_id
           ELSE <<Update([id_ver |-> TRUE])>> \o proc_grant_rank(FALSE)))

\* Mutant of proc_forward_id_admins: the state is written before the
\* reference to the forwarded message.
proc_forward_id_admins_StateFirst(mid) ==
    <<Typing, ToFiles, Chan("id_forwarded"),
      Update([ver_state |-> AWAIT_APPROVAL]),
      DM("forwarded_wait"),
      Update([id_message |-> Some(mid)])>>

\* @_next_state(State.AWAIT_APPROVAL) proc_forward_id_admins
proc_forward_id_admins(mid) ==
    <<Typing, ToFiles, Chan("id_forwarded"),
      Update([id_message |-> Some(mid)]),
      DM("forwarded_wait"),
      Update([ver_state |-> AWAIT_APPROVAL])>>

\* state_await_id
state_await_id(natt, mid) ==
    IF natt = 0 THEN <<DM("no_attachments")>>
    ELSE proc_forward_id_admins(mid)

\* state_await_approval
state_await_approval == <<>>

\* Verify.proc_handle_state
proc_handle_state(data, uid, sec, content, natt, mid, mailOk, now) ==
    IF data = None THEN <<>>
    ELSE LET member_data == data[1] IN
         IF member_data.id_ver THEN <<>>
         ELSE LET state == member_data.ver_state IN
              CASE state = AWAIT_NAME -> state_await_name(content)
                [] state = AWAIT_UNSW -> state_await_unsw(content)
                [] state = AWAIT_ZID ->
                     state_await_zid(member_data, uid, sec, content, mailOk)
                [] state = AWAIT_EMAIL ->
                     state_await_email(member_data, uid, sec, content, mailOk)
                [] state = AWAIT_CODE ->
                     state_await_code(member_data, uid, sec, content, now)
                [] state = AWAIT_ID -> state_await_id(natt, mid)
                [] state = AWAIT_APPROVAL -> state_await_approval
                [] OTHER -> <<>>

\* is_verifying_user: TRUE when the check passes
is_verifying_user(data) ==
    /\ data # None
    /\ data[1].ver_state # NoState
    /\ ~data[1].id_ver

\* Mutant of proc_resend_email: no test of the state.
proc_resend_email_AnyState(member_data, uid, sec, mailOk) ==
    IF ~member_data.id_ver /\ member_data.email # None
    THEN proc_send_email(member_data, uid, sec, member_data.email[1], mailOk)
    ELSE <<>>

\* Mutant of proc_resend_email: the resend is let through once more after
\* the limit is reached.
proc_resend_email_OffByOne(member_data, uid, sec, mailOk) ==
    IF ~member_data.id_ver /\ member_data.ver_state = AWAIT_CODE
    THEN proc_send_email_OffByOne(member_data, uid, sec,
                                  member_data.email[1], mailOk)
    ELSE <<>>

\* proc_resend_email
proc_resend_email(member_data, uid, sec, mailOk) ==
    IF ~member_data.id_ver /\ member_data.ver_state = AWAIT_CODE
    THEN proc_send_email(member_data, uid, sec, member_data.email[1], mailOk)
    ELSE <<>>

\* Verify.cmd_resend behind @pre(check(is_verifying_user)) (notify=False)
cmd_resend(data, uid, sec, mailOk) ==
    IF ~is_verifying_user(data) THEN <<>>
    ELSE proc_resend_email(data[1], uid, sec, mailOk)

\* Mutant of awaiting_approval: no test of id_verified.
awaiting_approval_NoVerifiedTest(data) ==
    IF data = None THEN "That user is not currently being verified."
    ELSE IF data[1].ver_state # AWAIT_APPROVAL
         THEN "That user is not awaiting approval."
    ELSE ""

\* _awaiting_approval: the error message of the failed check, "" if it passes
awaiting_approval(data) ==
    IF data = None THEN "That user is not currently being verified."
    ELSE IF data[1].id_ver THEN "That user is already verified."
    ELSE IF data[1].ver_state # AWAIT_APPROVAL
         THEN "That user is not awaiting approval."
    ELSE ""

\* hooks.check(..., notify=True): a failed check raises CheckFailed(obj, msg)
CheckAwaitingApproval(data, body) ==
    IF awaiting_approval(data) # "" THEN <<Raise(awaiting_approval(data))>>
    ELSE body

\* Mutant of proc_exec_approve: the approving exec is not written.
proc_exec_approve_NoStamp(data, exec) ==
    CheckAwaitingApproval(data,
        <<Update([id_ver |-> TRUE])>> \o proc_grant_rank(FALSE))

\* Mutant of proc_exec_approve: the role is granted before the record is
\* updated.
proc_exec_approve_GrantFirst(data, exec) ==
    CheckAwaitingApproval(data,
        proc_grant_rank(FALSE)
        \o <<Update([id_ver |-> TRUE, ver_exec |-> Some(exec)])>>)

\* proc_exec_approve
proc_exec_approve(data, exec) ==
    CheckAwaitingApproval(data,
        <<Update([id_ver |-> TRUE, ver_exec |-> Some(exec)])>>
        \o proc_grant_rank(FALSE))

\* Mutant of proc_exec_reject: the member's details are cleared too.
proc_exec_reject_Wipe(data) ==
    CheckAwaitingApproval(data,
        <<Update([ver_state |-> NoState, name |-> None, zid |-> None,
                  email |-> None, id_message |-> None]),
          DM("denied"), Chan("rejected")>>)

\* Mutant of proc_exec_reject: the count of emails is set back to 0.
proc_exec_reject_ResetCount(data) ==
    CheckAwaitingApproval(data,
        <<Update([ver_state |-> NoState, email_attempts |-> 0]),
          DM("denied"), Chan("rejected")>>)

\* Mutant of proc_exec_reject: the member is told before the record is
\* updated, so that the handler is suspended between check and update.
proc_exec_reject_NotifyFirst(data) ==
    CheckAwaitingApproval(data,
        <<DM("denied"), Update([ver_state |-> NoState]), Chan("rejected")>>)

\* proc_exec_reject
proc_exec_reject(data) ==
    CheckAwaitingApproval(data,
        <<Update([ver_state |-> NoState]), DM("denied"), Chan("rejected")>>)

\* Mutant of proc_verify_manual: the record is written before arg is tested.
proc_verify_manual_WriteFirst(exec, name, arg, now) ==
    LET member_data ==
            ApplyPatch(make_def_member_data(now),
                       [name |-> Some(name), email_ver |-> TRUE,
                        id_ver |-> TRUE, ver_exec |-> Some(exec)]) IN
    <<Set(member_data)>> \o
    (IF is_valid_zid(arg)
     THEN <<Set(ApplyPatch(member_data,
                  [zid |-> Some(arg), email |-> Some(StudentEmail(arg))]))>>
          \o proc_grant_rank(FALSE)
     ELSE IF is_valid_email(arg)
     THEN <<Set(ApplyPatch(member_data, [email |-> Some(arg)]))>>
          \o proc_grant_rank(FALSE)
     ELSE <<Chan("neither_zid_nor_email")>>)

\* Mutant of proc_verify_manual: the record is patched, not replaced.
proc_verify_manual_Patch(exec, name, arg, now) ==
    LET patch == [name |-> Some(name), email_ver |-> TRUE,
                  id_ver |-> TRUE, ver_exec |-> Some(exec)] IN
    IF is_valid_zid(arg)
    THEN <<Update(patch),
           Update([zid |-> Some(arg), email |-> Some(StudentEmail(arg))])>>
         \o proc_grant_rank(FALSE)
    ELSE IF is_valid_email(arg)
    THEN <<Update(patch), Update([email |-> Some(arg)])>>
         \o proc_grant_rank(FALSE)
    ELSE <<Chan("neither_zid_nor_email")>>

\* Mutant of proc_verify_manual: email_verified is left at its default.
proc_verify_manual_NoEmailVer(exec, name, arg, now) ==
    LET member_data ==
            ApplyPatch(make_def_member_data(now),
                       [name |-> Some(name), email_ver |-> FALSE,
                        id_ver |-> TRUE, ver_exec |-> Some(exec)]) IN
    IF is_valid_zid(arg)
    THEN <<Set(ApplyPatch(member_data,
                 [zid |-> Some(arg), email |-> Some(StudentEmail(arg))]))>>
         \o proc_grant_rank(FALSE)
    ELSE IF is_valid_email(arg)
    THEN <<Set(ApplyPatch(member_data, [email |-> Some(arg)]))>>
         \o proc_grant_rank(FALSE)
    ELSE <<Chan("neither_zid_nor_email")>>

\* proc_verify_manual
proc_verify_manual(exec, name, arg, now) ==
    LET member_data ==
            ApplyPatch(make_def_member_data(now),
                       [name |-> Some(name), email_ver |-> TRUE,
                        id_ver |-> TRUE, ver_exec |-> Some(exec)]) IN
    IF is_valid_zid(arg)
    THEN <<Set(ApplyPatch(member_data,
                 [zid |-> Some(arg), email |-> Some(StudentEmail(arg))]))>>
         \o proc_grant_rank(FALSE)
    ELSE IF is_valid_email(arg)
    THEN <<Set(ApplyPatch(member_data, [email |-> Some(arg)]))>>
         \o proc_grant_rank(FALSE)
    ELSE <<Chan("neither_zid_nor_email")>>

\* Mutant of proc_rejoin_verified: the grant is not silent.
proc_rejoin_verified_Loud ==
    proc_grant_rank(FALSE) \o <<Chan("regranted_on_rejoin")>>

\* proc_rejoin_verified
proc_rejoin_verified ==
    proc_grant_rank(TRUE) \o <<Chan("regranted_on_rejoin")>>

\* proc_resend_id; found: channel.fetch_message did not raise NotFound
proc_resend_id(data, found) ==
    CheckAwaitingApproval(data,
        IF ~found THEN <<Chan("fetch_message"), Chan("could_not_find")>>
        ELSE <<Chan("fetch_message"), Typing, ToFiles, Chan("previous_id")>>)

\* proc_display_pending: the member ids it mentions
PendingMentions(store) ==
    {id \in DOMAIN store : ~store[id].id_ver /\ store[id].ver_state = AWAIT_APPROVAL}

\* proc_display_pending.  gone: the ids for which guild.get_member returns
\* None (members who have left the server); member.mention then raises.
proc_display_pending(store, gone) ==
    IF PendingMentions(store) \cap gone # {} THEN <<Raise("AttributeError")>>
    ELSE IF PendingMentions(store) = {} THEN <<Chan("none_pending")>>
    ELSE <<Chan("members_awaiting_approval")>>

(***************************************************************************)
(* Inputs                                                                  *)
(***************************************************************************)

JANE == <<"J", "a", "n", "e">>

LONG_NAME == [i \in 1..(MAX_NAME_LEN + 1) |-> "a"]

YES == <<"Y">>

NO == <<"n", "o">>

N == <<"n">>

ZID_TEXT == <<"Z", "1", "2", "3", "4", "5", "6", "7">>

EMAIL_TEXT == <<"j", "@", "x", ".", "c">>

NON_ASCII == <<"Æ">>

\* Texts tried on the handler of each state besides JANE, which is sent in
\* every state (a valid name, and a malformed answer, zID, email and code).
TextsFor(state) ==
    CASE state = AWAIT_NAME -> {LONG_NAME}
      [] state = AWAIT_UNSW -> {YES, NO, N}
      [] state = AWAIT_ZID -> {ZID_TEXT}
      [] state = AWAIT_EMAIL -> {EMAIL_TEXT}
      [] state = AWAIT_CODE -> {NON_ASCII}
      [] OTHER -> {}

\* Arguments a moderator gives to the manual command.
ManualArgs == {Lower(ZID_TEXT), EMAIL_TEXT, JANE}

(***************************************************************************)
(* State                                                                   *)
(***************************************************************************)

VARIABLES
    db,       \* members collection: member id -> record, for existing documents
    secret,   \* secrets collection: None or Some(secret)
    roles,    \* member id -> holds the verified role
    clock,    \* value of time()
    mailed,   \* member id -> codes delivered by email, most recent last
    ev,       \* the event handled last
    out,      \* what that event's handler did
    deliveries, \* member id -> emails delivered since the record was set
    tasks     \* handlers suspended at an await: task id -> None or Some(task)

vars == <<db, secret, roles, clock, mailed, ev, out, deliveries, tasks>>

Event(op, m, text, natt, by) ==
    [op |-> op, m |-> m, text |-> text, natt |-> natt, by |-> by]

NoOut ==
    [dm |-> <<>>, chan |-> <<>>, public |-> <<>>, mails |-> <<>>,
     granted |-> FALSE, raised |-> "", writes |-> 0, listed |-> {}]

Init ==
    /\ db = <<>>
    /\ secret = None
    /\ roles = [m \in Members |-> FALSE]
    /\ clock = 0
    /\ mailed = [m \in Members |-> <<>>]
    /\ ev = Event("init", 0, <<>>, 0, None)
    /\ out = NoOut
    /\ deliveries = [m \in Members |-> 0]
    /\ tasks = [i \in TaskIds |-> None]

\* db.get_member_data(id)
get_member_data(m) == IF m \in DOMAIN db THEN Some(db[m]) ELSE None

\* Direct messages member m can send: JANE with or without an attachment,
\* the texts for the member's current state and, while a code is awaited,
\* any code mailed to the member.
Messages(m) ==
    {[content |-> JANE, natt |-> n] : n \in 0..1}
    \cup {[content |-> t, natt |-> 0] :
            t \in IF m \in DOMAIN db
                  THEN TextsFor(db[m].ver_state)
                       \cup (IF db[m].ver_state = AWAIT_CODE
                             THEN Range(mailed[m]) ELSE {})
                  ELSE {}}

\* Number of calls in steps that can raise a gateway error.
RECURSIVE GatewayCalls(_)
GatewayCalls(steps) ==
    IF steps = <<>> THEN 0
    ELSE (IF Head(steps).k \in GatewayKinds THEN 1 ELSE 0)
         + GatewayCalls(Tail(steps))

\* Outcomes of the Mailer that the handler can observe.
MailOutcomes(steps) ==
    IF \E i \in DOMAIN steps : steps[i].k = "mail" THEN BOOLEAN ELSE {TRUE}

\* Values db.get_secret can return to this handler: the stored secret, or
\* any value of token_bytes when none is stored.
FreshSecrets == {get_secret(secret, s)[1] : s \in Secrets}

\* Mail.send_email: the member's mailbox after the attempts of one handler
\* (a handler makes at most one); a code mailed again moves to the end.
Deliver(box, mails) ==
    IF mails = <<>> \/ ~mails[1].ok THEN box
    ELSE SelectSeq(box, LAMBDA c : c # mails[1].code) \o <<mails[1].code>>

\* Deliveries to the member since the record was written whole, after a
\* handler (or a part of one) that made sets set_member_data calls and the
\* delivery attempts mails.
Delivered(n, sets, mails) ==
    (IF sets > 0 THEN 0 ELSE n)
    + Cardinality({i \in DOMAIN mails : mails[i].ok})

\* Result of the handler with step list steps on member m.
Result(m, steps, failAt) ==
    Run(steps, StartRun(get_member_data(m), secret, roles[m]), failAt)

\* The handler's effects on the store, the gateway and the Mailer.
Commit(m, st, event) ==
    /\ db' = IF st.rec = None THEN db
             ELSE [x \in DOMAIN db \cup {m} |-> IF x = m THEN st.rec[1] ELSE db[x]]
    /\ secret' = st.secret
    /\ roles' = [roles EXCEPT ![m] = st.role]
    /\ mailed' = [mailed EXCEPT ![m] = Deliver(@, st.mails)]
    /\ ev' = event
    /\ out' = [dm |-> st.dm, chan |-> st.chan, public |-> st.public,
               mails |-> st.mails, granted |-> st.granted,
               raised |-> st.raised, writes |-> st.writes, listed |-> {}]
    /\ deliveries' = [deliveries EXCEPT ![m] = Delivered(@, st.sets, st.mails)]
    /\ UNCHANGED <<clock, tasks>>

Handle(m, steps, event) ==
    \E failAt \in 0..GatewayCalls(steps) : Commit(m, Result(m, steps, failAt), event)

(***************************************************************************)
(* Events                                                                  *)
(***************************************************************************)

\* cmd_verify -> proc_begin
Begin(m) ==
    LET steps == proc_begin(get_member_data(m), clock) IN
    /\ \A i \in DOMAIN steps :
          steps[i].k = "update" /\ "max_email_attempts" \in DOMAIN steps[i].patch
             => steps[i].patch.max_email_attempts <= MaxLimit
    /\ Handle(m, steps, Event("begin", m, <<>>, 0, None))

\* cmd_restart -> proc_restart
Restart(m) ==
    /\ m \in Members
    /\ Handle(m, proc_restart(get_member_data(m), clock),
              Event("restart", m, <<>>, 0, None))

\* on_message -> proc_handle_state
Message(m) ==
    /\ m \in Members
    /\ \E msg \in Messages(m), mid \in MessageIds, s \in FreshSecrets :
         \E mailOk \in MailOutcomes(
                 proc_handle_state(get_member_data(m), m, s,
                                   msg.content, msg.natt, mid, TRUE, clock)) :
            Handle(m, proc_handle_state(get_member_data(m), m, s,
                                        msg.content, msg.natt, mid, mailOk, clock),
                   Event("message", m, msg.content, msg.natt, None))

\* cmd_resend
Resend(m) ==
    /\ m \in Members
    /\ \E s \in FreshSecrets :
         \E mailOk \in MailOutcomes(cmd_resend(get_member_data(m), m, s, TRUE)) :
            Handle(m, cmd_resend(get_member_data(m), m, s, mailOk),
               Event("resend", m, <<>>, 0, None))

\* cmd_verify_approve -> proc_exec_approve
Approve(m) ==
    /\ m \in Members
    /\ \E e \in Execs :
          Handle(m, proc_exec_approve(get_member_data(m), e),
                 Event("approve", m, <<>>, 0, Some(e)))

\* cmd_verify_reject -> proc_exec_reject
Reject(m) ==
    /\ m \in Members
    /\ Handle(m, proc_exec_reject(get_member_data(m)),
              Event("reject", m, <<>>, 0, None))

\* cmd_verify_manual -> proc_verify_manual
Manual(m) ==
    /\ m \in Members
    /\ \E e \in Execs, arg \in ManualArgs :
          Handle(m, proc_verify_manual(e, JANE, arg, clock),
                 Event("manual", m, arg, 0, Some(e)))

\* cmd_verify_check -> proc_resend_id
Check(m) ==
    /\ m \in Members
    /\ \E found \in BOOLEAN :
          Handle(m, proc_resend_id(get_member_data(m), found),
                 Event("check", m, <<>>, 0, None))

\* cmd_verify_pending -> proc_display_pending.  The store keeps the record
\* of a member who leaves the server, so any listed member may have left.
Pending ==
    \E ok \in BOOLEAN, gone \in SUBSET PendingMentions(db) :
        LET steps == proc_display_pending(db, gone) IN
        /\ ev' = Event("pending", 0, <<>>, 0, None)
        /\ out' = IF steps[1].k = "raise"
                  THEN [NoOut EXCEPT !.raised = steps[1].tag]
                  ELSE IF ok
                  THEN [NoOut EXCEPT !.chan = <<steps[1].tag>>,
                                     !.listed = PendingMentions(db)]
                  ELSE [NoOut EXCEPT !.raised = "GatewayError"]
        /\ UNCHANGED <<db, secret, roles, clock, mailed, deliveries, tasks>>

\* on_member_join -> proc_rejoin_verified, for a member verified in the store
Rejoin(m) ==
    /\ m \in DOMAIN db
    /\ db[m].id_ver
    /\ ~roles[m]
    /\ Handle(m, proc_rejoin_verified, Event("join", m, <<>>, 0, None))

\* The member leaves the server, or the role is taken away by hand.
RoleLost(m) ==
    /\ roles[m]
    /\ roles' = [roles EXCEPT ![m] = FALSE]
    /\ ev' = Event("role_lost", m, <<>>, 0, None)
    /\ out' = NoOut
    /\ UNCHANGED <<db, secret, clock, mailed, deliveries, tasks>>

\* time() advances
Tick ==
    /\ clock < MaxTime
    /\ clock' = clock + 1
    /\ ev' = Event("tick", 0, <<>>, 0, None)
    /\ out' = NoOut
    /\ UNCHANGED <<db, secret, roles, mailed, deliveries, tasks>>

Next ==
    \/ \E m \in Members : Begin(m)
    \/ \E m \in Members : Restart(m)
    \/ \E m \in Members : Message(m)
    \/ \E m \in Members : Resend(m)
    \/ \E m \in Members : Approve(m)
    \/ \E m \in Members : Reject(m)
    \/ \E m \in Members : Manual(m)
    \/ \E m \in Members : Check(m)
    \/ \E m \in Members : Rejoin(m)
    \/ \E m \in Members : RoleLost(m)
    \/ Pending
    \/ Tick

Spec == Init /\ [][Next]_vars

\* The events of the members alone: no moderator command is ever given.
NextMember ==
    \/ \E m \in Members : Begin(m)
    \/ \E m \in Members : Restart(m)
    \/ \E m \in Members : Message(m)
    \/ \E m \in Members : Resend(m)
    \/ Tick

SpecMember == Init /\ [][NextMember]_vars

(***************************************************************************)
(* Handlers in progress at the same time                                   *)
(***************************************************************************)

\* A coroutine runs until its next await of the gateway (send, add_roles,
\* typing, to_file, reply): the store, the Mailer, the checks of the pre
\* decorators and the logging are called synchronously.  resumed says that
\* the first step is the gateway call whose result the coroutine awaited.
\* The result holds the steps left, none when the handler has ended.
RECURSIVE RunSegment(_, _, _)
RunSegment(steps, st, resumed) ==
    IF steps = <<>> \/ st.raised # "" THEN [steps |-> <<>>, st |-> st]
    ELSE IF Head(steps).k \in GatewayKinds /\ ~resumed
         THEN [steps |-> steps, st |-> st]
         ELSE RunSegment(Tail(steps), DoStep(st, Head(steps), 0), FALSE)

\* Task i, handling event with the steps left, runs one segment on the store
\* as it is now; out holds what the segment did.
Advance(i, event, steps, resumed) ==
    LET m == event.m
        r == RunSegment(steps, StartRun(get_member_data(m), secret, roles[m]),
                        resumed)
        st == r.st
    IN /\ db' = IF st.rec = None THEN db
                ELSE [x \in DOMAIN db \cup {m} |->
                         IF x = m THEN st.rec[1] ELSE db[x]]
       /\ secret' = st.secret
       /\ roles' = [roles EXCEPT ![m] = st.role]
       /\ mailed' = [mailed EXCEPT ![m] = Deliver(@, st.mails)]
       /\ deliveries' = [deliveries EXCEPT
                            ![m] = Delivered(@, st.sets, st.mails)]
       /\ ev' = event
       /\ out' = [dm |-> st.dm, chan |-> st.chan, public |-> st.public,
                  mails |-> st.mails, granted |-> st.granted,
                  raised |-> st.raised, writes |-> st.writes, listed |-> {}]
       /\ tasks' = [tasks EXCEPT
                       ![i] = IF r.steps = <<>> THEN None
                              ELSE Some([ev |-> event, steps |-> r.steps])]
       /\ UNCHANGED clock

\* The event loop starts the handler of event: it reads the record and runs
\* to its first await.  Task "b" is used only while task "a" is in progress.
StartTask(event, steps) ==
    \E i \in TaskIds :
        /\ tasks[i] = None
        /\ i = "b" => tasks["a"] # None
        /\ Advance(i, event, steps, FALSE)

\* The gateway call task i awaits completes, and the task runs on.
ResumeTask(i) ==
    /\ tasks[i] # None
    /\ Advance(i, tasks[i][1].ev, tasks[i][1].steps, TRUE)

\* cmd_verify -> proc_begin.  A member goes through one verification cycle:
\* the limit is not raised by a second request.
ConcBegin(m) ==
    LET steps == proc_begin(get_member_data(m), clock) IN
    /\ \A i \in DOMAIN steps :
          steps[i].k = "update" /\ "max_email_attempts" \in DOMAIN steps[i].patch
             => steps[i].patch.max_email_attempts <= MAX_VER_EMAILS
    /\ StartTask(Event("begin", m, <<>>, 0, None), steps)

\* The secret db.get_secret returns: the stored one, or the one value
\* token_bytes has when none is stored.
ConcSecret == get_secret(secret, "k1")[1]

\* on_message -> proc_handle_state
ConcMessage(m) ==
    \E msg \in Messages(m), mid \in MessageIds :
      \E mailOk \in MailOutcomes(
              proc_handle_state(get_member_data(m), m, ConcSecret,
                                msg.content, msg.natt, mid, TRUE, clock)) :
         StartTask(Event("message", m, msg.content, msg.natt, None),
                   proc_handle_state(get_member_data(m), m, ConcSecret,
                                     msg.content, msg.natt, mid, mailOk, clock))

\* cmd_resend
ConcResend(m) ==
    \E mailOk \in MailOutcomes(cmd_resend(get_member_data(m), m, ConcSecret, TRUE)) :
       StartTask(Event("resend", m, <<>>, 0, None),
                 cmd_resend(get_member_data(m), m, ConcSecret, mailOk))

\* cmd_verify_approve -> proc_exec_approve
ConcApprove(m) ==
    \E e \in Execs :
       StartTask(Event("approve", m, <<>>, 0, Some(e)),
                 proc_exec_approve(get_member_data(m), e))

\* cmd_verify_reject -> proc_exec_reject
ConcReject(m) ==
    StartTask(Event("reject", m, <<>>, 0, None),
              proc_exec_reject(get_member_data(m)))

NextConc ==
    \/ \E m \in Members : ConcBegin(m)
    \/ \E m \in Members : ConcMessage(m)
    \/ \E m \in Members : ConcResend(m)
    \/ \E m \in Members : ConcApprove(m)
    \/ \E m \in Members : ConcReject(m)
    \/ \E i \in TaskIds : ResumeTask(i)

SpecConc == Init /\ [][NextConc]_vars

\* get_code on its own: the secret is in the store, and the function is
\* called with any user id and any noise.
InitCode ==
    /\ db = <<>>
    /\ secret \in {Some(s) : s \in Secrets}
    /\ roles = [m \in Members |-> FALSE]
    /\ clock = 0
    /\ mailed = [m \in Members |-> <<>>]
    /\ ev = Event("init", 0, <<>>, 0, None)
    /\ out = NoOut
    /\ deliveries = [m \in Members |-> 0]
    /\ tasks = [i \in TaskIds |-> None]

\* One call get_code(db, user, noise): ev holds the user id and the code
\* returned, clock the noise.
GetCode(uid, noise) ==
    /\ clock' = noise
    /\ ev' = Event("get_code", uid, get_code(secret[1], uid, noise), 0, None)
    /\ out' = NoOut
    /\ UNCHANGED <<db, secret, roles, mailed, deliveries, tasks>>

NextCode == \E uid \in 1..MaxId, noise \in 0..MaxNoise : GetCode(uid, noise)

SpecCode == InitCode /\ [][NextCode]_vars

(***************************************************************************)
(* Properties                                                              *)
(***************************************************************************)

\* C1: approve and reject on a member that is absent, already verified or
\* not in AWAIT_APPROVAL fail with the reason of the first failing condition
\* (absent, verified, other state); the record is not written, no role is
\* granted and the member gets no message.
C1_ApproveRejectPrecondition ==
    [][\A m \in Members :
        (ev'.op \in {"approve", "reject"} /\ ev'.m = m) =>
            LET absent == m \notin DOMAIN db
                verified == ~absent /\ db[m].id_ver
                waiting == /\ ~absent
                           /\ ~db[m].id_ver
                           /\ db[m].ver_state = AWAIT_APPROVAL
            IN  ~waiting =>
                  /\ out'.raised =
                        (IF absent
                         THEN "That user is not currently being verified."
                         ELSE IF verified THEN "That user is already verified."
                         ELSE "That user is not awaiting approval.")
                  /\ db' = db
                  /\ out'.writes = 0
                  /\ roles' = roles
                  /\ ~out'.granted
                  /\ out'.dm = <<>>]_vars

\* C1 witness: a reject refused because the member is still at the code step.
C1_Witness ==
    \E m \in DOMAIN db :
        /\ ev.op = "reject" /\ ev.m = m
        /\ db[m].ver_state = AWAIT_CODE
        /\ out.raised = "That user is not awaiting approval."

\* C2: a matching code in AWAIT_CODE sets email_verified and refreshes the
\* timestamp; without a zID the state becomes AWAIT_ID, identity_verified
\* stays false and no role is granted; with a zID identity_verified becomes
\* true and the role is granted with no photo step (the state and result of
\* the prompts are those of a handler that ran to completion).
C2_CodeAccepted ==
    [][\A m \in Members :
        ( /\ ev'.op = "message" /\ ev'.m = m
          /\ m \in DOMAIN db
          /\ ~db[m].id_ver
          /\ db[m].ver_state = AWAIT_CODE
          /\ secret # None
          /\ ev'.text = get_code(secret[1], m, db[m].ver_time) ) =>
            /\ db'[m].email_ver
            /\ db'[m].ver_time = clock
            /\ db[m].zid = None =>
                 /\ ~db'[m].id_ver
                 /\ ~out'.granted
                 /\ roles' = roles
                 /\ out'.raised = "" => db'[m].ver_state = AWAIT_ID
            /\ db[m].zid # None =>
                 /\ db'[m].id_ver
                 /\ db'[m].ver_state = AWAIT_CODE
                 /\ db'[m].id_message = db[m].id_message
                 /\ out'.raised = "" => (out'.granted /\ roles'[m])]_vars

\* C2 witness: a member without zID has just had a code accepted.
C2_Witness ==
    \E m \in DOMAIN db :
        /\ ev.op = "message" /\ ev.m = m
        /\ out.dm = <<"id_prompt">>
        /\ db[m].ver_state = AWAIT_ID
        /\ db[m].email_ver
        /\ db[m].zid = None

\* C3: whenever a record holds a zID, its email is the address derived from
\* that zID.
C3_ZidEmailConsistent ==
    \A m \in DOMAIN db :
        db[m].zid # None => db[m].email = Some(StudentEmail(db[m].zid[1]))

C6_RateLimitBoundary ==
    [][\A m \in Members :
        ( /\ ev'.m = m
          /\ m \in DOMAIN db
          /\ ~db[m].id_ver
          /\ \/ /\ ev'.op = "message" /\ db[m].ver_state = AWAIT_ZID
                /\ is_valid_zid(Lower(ev'.text))
             \/ /\ ev'.op = "message" /\ db[m].ver_state = AWAIT_EMAIL
                /\ is_valid_email(ev'.text)
             \/ /\ ev'.op = "resend" /\ db[m].ver_state = AWAIT_CODE ) =>
            /\ db[m].email_attempts >= db[m].max_email_attempts =>
                 /\ out'.mails = <<>>
                 /\ db'[m].email_attempts = db[m].email_attempts
                 /\ db'[m].ver_state = db[m].ver_state
                 /\ out'.raised = "" => out'.dm = <<"too_many_emails">>
            /\ ( /\ db[m].email_attempts = db[m].max_email_attempts - 1
                 /\ out'.mails # <<>>
                 /\ out'.mails[1].ok ) =>
                 /\ db'[m].email_attempts = db[m].max_email_attempts
                 /\ db'[m].max_email_attempts = db[m].max_email_attempts
                 /\ out'.raised = "" => db'[m].ver_state = AWAIT_CODE]_vars

\* C6 witness: a resend refused at the limit.
C6_Witness ==
    \E m \in DOMAIN db :
        /\ ev.op = "resend" /\ ev.m = m
        /\ db[m].ver_state = AWAIT_CODE
        /\ db[m].email_attempts = db[m].max_email_attempts
        /\ out.dm = <<"too_many_emails">>
        /\ out.mails = <<>>

\* C7: in every record email_send_count <= email_send_limit.
C7_CountWithinLimit ==
    \A m \in DOMAIN db : db[m].email_attempts <= db[m].max_email_attempts

\* C7 witness: a raised limit has been used up by deliveries.
C7_Witness ==
    \E m \in DOMAIN db :
        /\ db[m].max_email_attempts > MAX_VER_EMAILS
        /\ db[m].email_attempts = db[m].max_email_attempts
        /\ ev.op \in {"message", "resend"}
        /\ out.mails # <<>>

\* C8: once count >= limit, events of the member alone neither raise the
\* limit nor get another email delivered (checked where no moderator command
\* is ever given).
C8_ExhaustionTerminal ==
    [][\A m \in Members :
        (m \in DOMAIN db /\ db[m].email_attempts >= db[m].max_email_attempts) =>
            /\ db'[m].max_email_attempts = db[m].max_email_attempts
            /\ mailed'[m] = mailed[m]
            /\ \A i \in DOMAIN out'.mails : ~out'.mails[i].ok]_vars

\* C9: when the Mailer reports a failure, the count is not incremented, the
\* state does not advance and the member is sent the generic error.
C9_FailedSendReported ==
    [][\A m \in Members :
        ( /\ ev'.m = m
          /\ ev'.op \in {"message", "resend"}
          /\ out'.mails # <<>>
          /\ ~out'.mails[1].ok ) =>
            /\ db'[m].email_attempts = db[m].email_attempts
            /\ db'[m].ver_state = db[m].ver_state
            /\ \E i \in DOMAIN out'.dm : out'.dm[i] = "email_went_wrong"]_vars

\* C10: in AWAIT_CODE the expected code is the code of the email delivered
\* last; a message with that code is accepted and every other message
\* leaves the record as it is.
C10_CodeRoundTrip ==
    [][\A m \in Members :
        ( /\ m \in DOMAIN db
          /\ ~db[m].id_ver
          /\ db[m].ver_state = AWAIT_CODE ) =>
            /\ secret # None
            /\ mailed[m] # <<>>
            /\ mailed[m][Len(mailed[m])] = get_code(secret[1], m, db[m].ver_time)
            /\ (ev'.op = "message" /\ ev'.m = m) =>
                 IF ev'.text = mailed[m][Len(mailed[m])]
                 THEN /\ db'[m].email_ver
                      /\ db'[m].ver_time = clock
                      /\ out'.writes >= 1
                      /\ \A i \in DOMAIN out'.dm : out'.dm[i] # "wrong_code"
                 ELSE /\ db' = db
                      /\ out'.writes = 0
                      /\ ~out'.granted]_vars

\* C11: a successful resend in AWAIT_CODE, made at a later time than the
\* nonce of the earlier dispatch, delivers a new code, and the code of the
\* earlier dispatch is no longer the code AWAIT_CODE expects.
C11_ResendBindsCode ==
    [][\A m \in Members :
        ( /\ ev'.op = "resend" /\ ev'.m = m
          /\ m \in DOMAIN db
          /\ ~db[m].id_ver
          /\ db[m].ver_state = AWAIT_CODE
          /\ mailed[m] # <<>>
          /\ clock > db[m].ver_time
          /\ out'.mails # <<>>
          /\ out'.mails[1].ok ) =>
            /\ out'.mails[1].code # mailed[m][Len(mailed[m])]
            /\ get_code(secret'[1], m, db'[m].ver_time)
                   # mailed[m][Len(mailed[m])]]_vars

\* C12: when a restart takes effect or a code is accepted at a time later
\* than the nonce of the cycle it ends, no code mailed to the member so far
\* is the code AWAIT_CODE expects from then on.
C12_StaleCodeRejected ==
    [][\A m \in Members :
        ( /\ ev'.m = m
          /\ m \in DOMAIN db
          /\ ~db[m].id_ver
          /\ clock > db[m].ver_time
          /\ out'.writes >= 1
          /\ \/ ev'.op = "restart"
             \/ /\ ev'.op = "message"
                /\ db[m].ver_state = AWAIT_CODE
                /\ secret # None
                /\ ev'.text = get_code(secret[1], m, db[m].ver_time) ) =>
            \A i \in DOMAIN mailed[m] :
                mailed[m][i] # get_code(secret[1], m, db'[m].ver_time)]_vars

\* C13: two calls of get_code with pairs (id, nonce) that differ in either
\* component hash different messages (and so return different codes).
C13_MessageDeterminesPair ==
    [][( /\ ev.op = "get_code"
         /\ ev'.op = "get_code"
         /\ <<ev.m, clock>> # <<ev'.m, clock'>> ) =>
            /\ user_bytes(ev.m, clock) # user_bytes(ev'.m, clock')
            /\ ev.text # ev'.text]_vars

\* C14: restart on an unverified record in AWAIT_NAME, AWAIT_UNSW, AWAIT_ZID,
\* AWAIT_EMAIL or AWAIT_CODE first writes state null with timestamp now: a
\* restart ended by a failure after that write leaves exactly that, and a
\* restart that completes ends in AWAIT_NAME with a timestamp not earlier
\* than the call (AWAIT_NAME being one of the five, also when repeated).
C14_RestartReentersName ==
    [][\A m \in Members :
        ( /\ ev'.op = "restart" /\ ev'.m = m
          /\ m \in DOMAIN db
          /\ ~db[m].id_ver
          /\ db[m].ver_state \in
                {AWAIT_NAME, AWAIT_UNSW, AWAIT_ZID, AWAIT_EMAIL, AWAIT_CODE} ) =>
            /\ out'.writes = 0 => db' = db
            /\ out'.writes = 1 =>
                 /\ out'.raised # ""
                 /\ db'[m] = [db[m] EXCEPT !.ver_state = NoState,
                                           !.ver_time = clock]
            /\ out'.raised = "" =>
                 /\ out'.writes = 2
                 /\ out'.dm = <<"name_prompt">>
                 /\ db'[m].ver_state = AWAIT_NAME
                 /\ db'[m].ver_time >= clock]_vars

\* C14 witness: a record that had reached the email stage is back in
\* AWAIT_NAME after a restart made at a later time.
C14_Witness ==
    \E m \in DOMAIN db :
        /\ ev.op = "restart" /\ ev.m = m
        /\ out.writes = 2
        /\ db[m].ver_state = AWAIT_NAME
        /\ db[m].email # None
        /\ db[m].ver_time = clock
        /\ clock > 0

\* C15: restart without a record or with state null is answered 'not
\* currently being verified', restart on a verified record 'already
\* verified'; nothing is written, no role granted, no name prompt sent.
C15_RestartRefused ==
    [][\A m \in Members :
        (ev'.op = "restart" /\ ev'.m = m) =>
            /\ (m \notin DOMAIN db \/ (~db[m].id_ver /\ db[m].ver_state = NoState)) =>
                 /\ db' = db /\ roles' = roles
                 /\ out'.writes = 0 /\ ~out'.granted
                 /\ out'.raised = "" => out'.dm = <<"not_being_verified">>
                 /\ out'.raised # "" => out'.dm = <<>>
            /\ (m \in DOMAIN db /\ db[m].id_ver) =>
                 /\ db' = db /\ roles' = roles
                 /\ out'.writes = 0 /\ ~out'.granted
                 /\ out'.raised = "" => out'.dm = <<"already_verified">>
                 /\ out'.raised # "" => out'.dm = <<>>]_vars

\* C15 witness: a verified record with state null was told 'already
\* verified' on restart.
C15_Witness ==
    \E m \in DOMAIN db :
        /\ ev.op = "restart" /\ ev.m = m
        /\ db[m].id_ver
        /\ db[m].ver_state = NoState
        /\ out.dm = <<"already_verified">>

C17_ApproveStampsAndGrants ==
    [][\A m \in Members :
        ( /\ ev'.op = "approve" /\ ev'.m = m
          /\ m \in DOMAIN db
          /\ ~db[m].id_ver
          /\ db[m].ver_state = AWAIT_APPROVAL ) =>
            /\ out'.writes = 1
            /\ db'[m] = [db[m] EXCEPT !.id_ver = TRUE, !.ver_exec = ev'.by]
            /\ ev'.by # None
            /\ out'.raised = "" =>
                 /\ out'.granted /\ roles'[m]
                 /\ out'.dm = <<"now_verified">>
                 /\ out'.chan = <<"is_now_verified">>
                 /\ out'.public = <<"welcome">>]_vars

\* C17 witness: an approve has completed on a pending record.
C17_Witness ==
    \E m \in DOMAIN db :
        /\ ev.op = "approve" /\ ev.m = m
        /\ out.granted
        /\ out.raised = ""
        /\ db[m].id_ver
        /\ db[m].ver_exec = ev.by
        /\ db[m].ver_state = AWAIT_APPROVAL
        /\ db[m].id_message # None

C19_ManualInvalidArgument ==
    [][\A m \in Members :
        ( /\ ev'.op = "manual" /\ ev'.m = m
          /\ ~is_valid_zid(ev'.text)
          /\ ~is_valid_email(ev'.text) ) =>
            /\ db' = db
            /\ roles' = roles
            /\ out'.writes = 0
            /\ ~out'.granted
            /\ out'.dm = <<>>
            /\ out'.raised = "" => out'.chan = <<"neither_zid_nor_email">>]_vars

\* C19 witness: the command was refused for a member who is in the middle
\* of the workflow.
C19_Witness ==
    \E m \in DOMAIN db :
        /\ ev.op = "manual" /\ ev.m = m
        /\ out.chan = <<"neither_zid_nor_email">>
        /\ ~db[m].id_ver
        /\ db[m].ver_state = AWAIT_CODE

C21_VerifiedBeginRegrants ==
    [][\A m \in Members :
        ( /\ ev'.op = "begin" /\ ev'.m = m
          /\ m \in DOMAIN db
          /\ db[m].id_ver ) =>
            /\ db' = db
            /\ out'.writes = 0
            /\ out'.raised # "GatewayError" =>
                 /\ out'.granted
                 /\ roles'[m]
                 /\ out'.dm = <<"welcome_back">>
                 /\ out'.chan = <<"regranted_on_request">>]_vars

\* C22: begin on an unverified record whose state is not null is answered
\* 'already undergoing verification, use restart': no store write, no role
\* grant, no name prompt, and the state stays as it was.
C22_BeginRefusedWhileVerifying ==
    [][\A m \in Members :
        ( /\ ev'.op = "begin" /\ ev'.m = m
          /\ m \in DOMAIN db
          /\ ~db[m].id_ver
          /\ db[m].ver_state # NoState ) =>
            /\ db' = db
            /\ roles' = roles
            /\ out'.writes = 0
            /\ ~out'.granted
            /\ out'.public = <<>>
            /\ out'.mails = <<>>
            /\ out'.raised = "" => out'.dm = <<"already_undergoing">>
            /\ out'.raised # "" => out'.dm = <<>>]_vars

\* C22 witness: a member awaiting the review of a photo has been told to use
\* restart after a begin.
C22_Witness ==
    \E m \in DOMAIN db :
        /\ ev.op = "begin" /\ ev.m = m
        /\ ~db[m].id_ver
        /\ db[m].ver_state = AWAIT_APPROVAL
        /\ out.dm = <<"already_undergoing">>
        /\ out.writes = 0

\* C23: a begin that runs to its end on an existing unverified record with
\* state null sets the state to AWAIT_NAME and changes nothing else, except
\* that email_send_limit is raised by exactly 2 exactly when the count had
\* reached the limit; without a record it creates the default record (count
\* 0, default limit, state null) and then sets the state to AWAIT_NAME.
C23_BeginStartsCycle ==
    [][\A m \in Members :
        (ev'.op = "begin" /\ ev'.m = m) =>
            /\ ( /\ m \in DOMAIN db
                 /\ ~db[m].id_ver
                 /\ db[m].ver_state = NoState ) =>
                  LET raise == db[m].email_attempts >= db[m].max_email_attempts
                      limit == IF raise THEN db[m].max_email_attempts + 2
                               ELSE db[m].max_email_attempts
                      kept == [db[m] EXCEPT !.max_email_attempts = limit]
                  IN /\ out'.raised = "" =>
                          db'[m] = [kept EXCEPT !.ver_state = AWAIT_NAME]
                     /\ out'.raised # "" => db'[m] = kept
                     /\ out'.writes <= (IF raise THEN 2 ELSE 1)
            /\ m \notin DOMAIN db =>
                  /\ m \in DOMAIN db'
                  /\ out'.raised = "" =>
                       db'[m] = [make_def_member_data(clock)
                                   EXCEPT !.ver_state = AWAIT_NAME]
                  /\ out'.raised # "" => db'[m] = make_def_member_data(clock)
                  /\ make_def_member_data(clock).email_attempts = 0
                  /\ make_def_member_data(clock).max_email_attempts = MAX_VER_EMAILS
                  /\ make_def_member_data(clock).ver_state = NoState]_vars

\* C23 witness: a begin on a record that had used up its emails has raised
\* the limit by 2, kept the count and the address, and asked for the name.
C23_Witness ==
    \E m \in DOMAIN db :
        /\ ev.op = "begin" /\ ev.m = m
        /\ out.raised = ""
        /\ out.writes = 2
        /\ db[m].ver_state = AWAIT_NAME
        /\ db[m].email_attempts = MAX_VER_EMAILS
        /\ db[m].max_email_attempts = MAX_VER_EMAILS + 2
        /\ db[m].email # None

\* C24: a join event for a verified member performs a silent grant: the role
\* is added and the moderation channel is told 'automatically re-granted on
\* rejoin'; the member gets no direct message, no public welcome is posted,
\* and the store is not written.
C24_RejoinSilentGrant ==
    [][\A m \in Members :
        (ev'.op = "join" /\ ev'.m = m) =>
            /\ m \in DOMAIN db /\ db[m].id_ver
            /\ db' = db
            /\ out'.writes = 0
            /\ out'.dm = <<>>
            /\ out'.public = <<>>
            /\ out'.mails = <<>>
            /\ out'.raised = "" =>
                 /\ out'.granted
                 /\ roles'[m]
                 /\ out'.chan = <<"regranted_on_rejoin">>
            /\ out'.raised # "" => out'.chan = <<>>]_vars

\* C24 witness: a verified member who had lost the role has it again after
\* a join, with the moderation channel told and nobody else.
C24_Witness ==
    \E m \in DOMAIN db :
        /\ ev.op = "join" /\ ev.m = m
        /\ db[m].id_ver
        /\ roles[m]
        /\ out.granted
        /\ out.chan = <<"regranted_on_rejoin">>
        /\ out.dm = <<>>
        /\ out.public = <<>>

\* C25: every input error of a member is recovered in place: a name that is
\* too long in AWAIT_NAME, an answer that is neither yes nor no in
\* AWAIT_UNSW, a malformed zID in AWAIT_ZID, a malformed address in
\* AWAIT_EMAIL, a code that does not match in AWAIT_CODE and a message
\* without attachments in AWAIT_ID each leave the record as it was, send no
\* email, grant no role and send the member one re-prompt.
C25_InputErrorsRecoveredInPlace ==
    [][\A m \in Members :
        ( /\ ev'.op = "message" /\ ev'.m = m
          /\ m \in DOMAIN db
          /\ ~db[m].id_ver
          /\ LET state == db[m].ver_state
                 text == ev'.text
             IN \/ state = AWAIT_NAME /\ Len(text) > MAX_NAME_LEN
                \/ state = AWAIT_UNSW
                     /\ Lower(text) \notin {<<"y">>, <<"y", "e", "s">>,
                                            <<"n">>, <<"n", "o">>}
                \/ state = AWAIT_ZID /\ ~is_valid_zid(Lower(text))
                \/ state = AWAIT_EMAIL /\ ~is_valid_email(text)
                \/ state = AWAIT_CODE
                     /\ secret # None
                     /\ text # get_code(secret[1], m, db[m].ver_time)
                \/ state = AWAIT_ID /\ ev'.natt = 0 ) =>
            /\ db' = db
            /\ roles' = roles
            /\ out'.writes = 0
            /\ out'.mails = <<>>
            /\ ~out'.granted
            /\ out'.raised # "GatewayError" => Len(out'.dm) = 1]_vars

\* C26: resend acts only on an unverified record in AWAIT_CODE, where it
\* runs the email dispatch again with the stored address under the same
\* limit (refused when the count has reached the limit, count raised by one
\* on a delivery); in every other state, without a record, or on a verified
\* record, it attempts no delivery and leaves the record as it was.
C26_ResendOnlyInAwaitCode ==
    [][\A m \in Members :
        (ev'.op = "resend" /\ ev'.m = m) =>
            IF m \in DOMAIN db /\ ~db[m].id_ver /\ db[m].ver_state = AWAIT_CODE
            THEN IF db[m].email_attempts >= db[m].max_email_attempts
                 THEN /\ db' = db
                      /\ out'.mails = <<>>
                      /\ out'.raised = "" => out'.dm = <<"too_many_emails">>
                 ELSE /\ secret' # None
                      /\ Len(out'.mails) <= 1
                      /\ out'.mails # <<>> =>
                           /\ out'.mails[1].to = db[m].email[1]
                           /\ out'.mails[1].code =
                                 get_code(secret'[1], m, db[m].ver_time)
                      /\ out'.raised # "GatewayError" => Len(out'.mails) = 1
                      /\ (out'.mails # <<>> /\ out'.mails[1].ok) =>
                           db'[m] = [db[m] EXCEPT !.email_attempts = @ + 1]
                      /\ (out'.mails = <<>> \/ ~out'.mails[1].ok) => db' = db
            ELSE /\ db' = db
                 /\ roles' = roles
                 /\ mailed' = mailed
                 /\ out'.mails = <<>>
                 /\ out'.writes = 0
                 /\ ~out'.granted]_vars

\* C26 witness: a resend in AWAIT_CODE has delivered the code to the stored
\* address once more and counted it.
C26_Witness ==
    \E m \in DOMAIN db :
        /\ ev.op = "resend" /\ ev.m = m
        /\ db[m].ver_state = AWAIT_CODE
        /\ Len(out.mails) = 1
        /\ out.mails[1].ok
        /\ out.mails[1].to = db[m].email[1]
        /\ db[m].email_attempts >= 2
        /\ out.raised = ""

\* C27: every precondition failure of a member command is surfaced: restart
\* without a record, with state null, on a verified record or once the photo
\* stage is reached, and resend without a record, with state null, in any
\* state other than AWAIT_CODE or on a verified record, each produce a
\* message the member sees (a direct message, or a check failure that is
\* notified); none is silently ignored.
C27_PreconditionFailuresSurfaced ==
    [][\A m \in Members :
        ( /\ ev'.m = m
          /\ \/ /\ ev'.op = "restart"
                /\ \/ m \notin DOMAIN db
                   \/ db[m].id_ver
                   \/ db[m].ver_state \in {NoState, AWAIT_ID, AWAIT_APPROVAL}
             \/ /\ ev'.op = "resend"
                /\ \/ m \notin DOMAIN db
                   \/ db[m].id_ver
                   \/ db[m].ver_state # AWAIT_CODE ) =>
            \/ out'.dm # <<>>
            \/ out'.raised # ""]_vars

\* C28: in AWAIT_ID a message with at least one attachment is forwarded to
\* the moderation channel, the reference to the forwarded message is stored,
\* and only then the state is set to AWAIT_APPROVAL; so every record in
\* AWAIT_APPROVAL has a reference, and a reference that is null stays null
\* until an ID is forwarded.
C28_ReferenceBeforeApproval ==
    [][\A m \in Members :
        /\ ( /\ ev'.op = "message" /\ ev'.m = m
             /\ m \in DOMAIN db
             /\ ~db[m].id_ver
             /\ db[m].ver_state = AWAIT_ID
             /\ ev'.natt >= 1 ) =>
               /\ out'.writes \in 0..2
               /\ out'.writes = 0 => (db' = db /\ out'.raised # "")
               /\ out'.writes >= 1 =>
                    /\ out'.chan = <<"id_forwarded">>
                    /\ \E mid \in MessageIds :
                          db'[m] = [db[m] EXCEPT
                                      !.id_message = Some(mid),
                                      !.ver_state = IF out'.writes = 2
                                                    THEN AWAIT_APPROVAL
                                                    ELSE AWAIT_ID]
               /\ out'.raised = "" =>
                    (out'.writes = 2 /\ out'.dm = <<"forwarded_wait">>)
        /\ (m \in DOMAIN db' /\ db'[m].ver_state = AWAIT_APPROVAL) =>
               db'[m].id_message # None
        /\ ( /\ m \in DOMAIN db' /\ db'[m].id_message # None
             /\ (m \notin DOMAIN db \/ db[m].id_message = None) ) =>
               /\ ev'.op = "message" /\ ev'.m = m /\ ev'.natt >= 1
               /\ m \in DOMAIN db /\ db[m].ver_state = AWAIT_ID
               /\ out'.chan = <<"id_forwarded">>]_vars

\* C28 witness: a photo has just been forwarded: the record is in
\* AWAIT_APPROVAL and holds the reference to the forwarded message.
C28_Witness ==
    \E m \in DOMAIN db :
        /\ ev.op = "message" /\ ev.m = m /\ ev.natt = 1
        /\ out.chan = <<"id_forwarded">>
        /\ out.writes = 2
        /\ db[m].ver_state = AWAIT_APPROVAL
        /\ db[m].id_message # None
        /\ ~db[m].id_ver

\* C29: the pending list is read-only: it writes nothing to the store, it
\* lists all the records whose state is AWAIT_APPROVAL and only those, and
\* it sends 'none pending' exactly when there is no such record.
C29_PendingListsAwaitingApproval ==
    [][ev'.op = "pending" =>
          LET awaiting == {m \in DOMAIN db : db[m].ver_state = AWAIT_APPROVAL} IN
          /\ db' = db
          /\ out'.writes = 0
          /\ out'.raised # "GatewayError" =>
               /\ out'.listed = awaiting
               /\ awaiting = {} <=> out'.chan = <<"none_pending">>
               /\ awaiting # {} <=> out'.chan = <<"members_awaiting_approval">>]_vars

C31_HappyPath ==
    [][\A m \in Members :
        LET t == IF m \in DOMAIN db THEN db[m].ver_time ELSE clock
            created == make_def_member_data(t)
            named == [created EXCEPT !.name = Some(JANE)]
            mailedTo == [named EXCEPT !.email = Some(EMAIL_TEXT),
                                      !.email_attempts = 1]
            coded == [mailedTo EXCEPT !.email_ver = TRUE]
            at(rec, state) == m \in DOMAIN db
                              /\ db[m] = [rec EXCEPT !.ver_state = state]
        IN (ev'.m = m /\ out'.raised = "") =>
            /\ (ev'.op = "begin" /\ m \notin DOMAIN db) =>
                 /\ db'[m] = [created EXCEPT !.ver_state = AWAIT_NAME]
                 /\ roles' = roles /\ out'.mails = <<>>
            /\ (ev'.op = "message" /\ at(created, AWAIT_NAME)
                /\ ev'.text = JANE) =>
                 /\ db'[m] = [named EXCEPT !.ver_state = AWAIT_UNSW]
                 /\ roles' = roles /\ out'.mails = <<>>
            /\ (ev'.op = "message" /\ at(named, AWAIT_UNSW)
                /\ ev'.text = N) =>
                 /\ db'[m] = [named EXCEPT !.ver_state = AWAIT_EMAIL]
                 /\ roles' = roles /\ out'.mails = <<>>
            /\ (ev'.op = "message" /\ at(named, AWAIT_EMAIL)
                /\ ev'.text = EMAIL_TEXT) =>
                 /\ db'[m] = [mailedTo EXCEPT !.ver_state = AWAIT_CODE]
                 /\ Len(out'.mails) = 1
                 /\ out'.mails[1].ok /\ out'.mails[1].to = EMAIL_TEXT
                 /\ mailed'[m] = <<out'.mails[1].code>>
                 /\ roles' = roles
            /\ (ev'.op = "message" /\ at(mailedTo, AWAIT_CODE)
                /\ mailed[m] # <<>>
                /\ ev'.text = mailed[m][Len(mailed[m])]) =>
                 /\ db'[m] = [coded EXCEPT !.ver_time = clock,
                                           !.ver_state = AWAIT_ID]
                 /\ roles' = roles /\ out'.mails = <<>>
            /\ (ev'.op = "message" /\ at(coded, AWAIT_ID)
                /\ ev'.natt >= 1) =>
                 /\ \E mid \in MessageIds :
                       db'[m] = [coded EXCEPT !.id_message = Some(mid),
                                              !.ver_state = AWAIT_APPROVAL]
                 /\ roles' = roles /\ out'.mails = <<>>
            /\ (ev'.op = "approve"
                /\ \E mid \in MessageIds :
                      at([coded EXCEPT !.id_message = Some(mid)],
                         AWAIT_APPROVAL)) =>
                 /\ db'[m] = [db[m] EXCEPT !.id_ver = TRUE, !.ver_exec = ev'.by]
                 /\ ~roles[m] /\ roles'[m] /\ out'.granted]_vars

\* C31 witness: the end of that path: a record created by begin, with the
\* name, the member's own address, one email counted, no zID, approved by a
\* moderator, and the role held.
C31_Witness ==
    \E m \in DOMAIN db :
        /\ ev.op = "approve" /\ ev.m = m
        /\ out.granted /\ roles[m]
        /\ \E t \in 0..MaxTime, mid \in MessageIds :
              db[m] = [make_def_member_data(t) EXCEPT
                         !.name = Some(JANE),
                         !.email = Some(EMAIL_TEXT),
                         !.email_attempts = 1,
                         !.email_ver = TRUE,
                         !.id_message = Some(mid),
                         !.id_ver = TRUE,
                         !.ver_exec = ev.by,
                         !.ver_state = AWAIT_APPROVAL]

\* C32: the verification secret is created at most once: a handler stores a
\* new secret only when none is stored, a stored secret is never replaced,
\* and every code sent, now or earlier, is the code of the stored secret for
\* the member and a nonce, so the same member and nonce give the same code
\* at every call.
C32_SecretCreatedOnce ==
    [][/\ secret # None => secret' = secret
       /\ (secret = None /\ secret' # None) =>
             /\ ev'.op \in {"message", "resend"}
             /\ secret'[1] \in Secrets
       /\ \A i \in DOMAIN out'.mails :
             /\ secret' # None
             /\ \E t \in 0..clock :
                   out'.mails[i].code = get_code(secret'[1], ev'.m, t)
       /\ \A m \in Members : \A i \in DOMAIN mailed'[m] :
             /\ secret' # None
             /\ \E t \in 0..clock :
                   mailed'[m][i] = get_code(secret'[1], m, t)]_vars

\* C32 witness: two emails have been delivered to a member at different
\* nonces, both with codes of the one stored secret.
C32_Witness ==
    \E m \in DOMAIN db :
        /\ secret # None
        /\ Len(mailed[m]) >= 2
        /\ \A i \in DOMAIN mailed[m] :
              \E t \in 0..clock : mailed[m][i] = get_code(secret[1], m, t)
        /\ db[m].email_attempts >= 2

\* C34: a member who in the current cycle answered 'no' and then gave an
\* email address of their own (the stored address is that address, and the
\* code sent to it is awaited) does not become identity_verified by
\* submitting a code, whatever was entered in cycles ended by restart.
C34_OwnEmailNeverSelfVerifies ==
    [][\A m \in Members :
        ( /\ ev'.op = "message" /\ ev'.m = m
          /\ m \in DOMAIN db
          /\ ~db[m].id_ver
          /\ db[m].ver_state = AWAIT_CODE
          /\ db[m].email = Some(EMAIL_TEXT) ) =>
            /\ ~db'[m].id_ver
            /\ ~out'.granted
            /\ roles' = roles]_vars

\* C35: the role is added to a member only while the member's record in the
\* store has identity_verified set: whenever a handler has added the role,
\* or a member holds the role who did not hold it before, that member's
\* record exists and shows identity_verified, also when the handler is cut
\* short after the role was added.
C35_RoleOnlyForVerifiedRecord ==
    [][\A m \in Members :
        ((out'.granted /\ ev'.m = m) \/ (roles'[m] /\ ~roles[m])) =>
            /\ m \in DOMAIN db'
            /\ db'[m].id_ver
            /\ ev'.op \in {"message", "approve", "manual", "join"}
            /\ ev'.op = "join" => (m \in DOMAIN db /\ db[m].id_ver)]_vars

\* C35 witness: a code with a stored zID has verified the member, and the
\* role was added although the message that follows the grant failed.
C35_Witness ==
    \E m \in DOMAIN db :
        /\ ev.op = "message" /\ ev.m = m
        /\ out.granted /\ roles[m]
        /\ out.raised = "GatewayError"
        /\ db[m].id_ver
        /\ db[m].zid # None
        /\ db[m].ver_exec = None

\* C38: identity_verified is monotonic: once a record has identity_verified
\* set, no event (begin, restart, resend, direct message, approve, reject,
\* check, manual verification, rejoin) clears it or removes the record.
C38_VerifiedIsMonotonic ==
    [][\A m \in Members :
        (m \in DOMAIN db /\ db[m].id_ver) =>
            (m \in DOMAIN db' /\ db'[m].id_ver)]_vars

\* C38 witness: a reject aimed at a record that a moderator had approved
\* was refused, and the record is still verified.
C38_Witness ==
    \E m \in DOMAIN db :
        /\ ev.op = "reject" /\ ev.m = m
        /\ out.raised = "That user is already verified."
        /\ out.writes = 0
        /\ db[m].id_ver
        /\ db[m].ver_state = AWAIT_APPROVAL
        /\ db[m].ver_exec # None

\* C39: every verified record is accounted for: a record with
\* identity_verified set holds a zID or the id of the verifying moderator,
\* and has email_verified set.
C39_VerifiedAccountedFor ==
    \A m \in DOMAIN db :
        db[m].id_ver =>
            /\ db[m].zid # None \/ db[m].ver_exec # None
            /\ db[m].email_ver

\* C39 witness: a record verified by a code, with a zID and no moderator.
C39_Witness ==
    \E m \in DOMAIN db :
        /\ db[m].id_ver
        /\ db[m].zid # None
        /\ db[m].ver_exec = None
        /\ db[m].email_ver
        /\ db[m].ver_state = AWAIT_CODE

\* C40: in every transition the new state is persisted last, after the
\* transition's side effect: when a handler ends with an exception the
\* persisted state of the record is the one from before the event, and when
\* the state has changed to a state X the prompt for X has been sent.  A
\* member without a record counts as state null.
C40_StatePersistedLast ==
    [][\A m \in Members :
        LET s == IF m \in DOMAIN db THEN db[m].ver_state ELSE NoState
            t == IF m \in DOMAIN db' THEN db'[m].ver_state ELSE NoState
            sent(tag) == \E i \in DOMAIN out'.dm : out'.dm[i] = tag
        IN /\ out'.raised # "" => t = s
           /\ t # s =>
                CASE t = AWAIT_NAME -> sent("name_prompt")
                  [] t = AWAIT_UNSW -> sent("unsw_prompt")
                  [] t = AWAIT_ZID -> sent("zid_prompt")
                  [] t = AWAIT_EMAIL -> sent("email_prompt")
                  [] t = AWAIT_CODE -> sent("code_prompt")
                  [] t = AWAIT_ID -> sent("id_prompt")
                  [] t = AWAIT_APPROVAL -> sent("forwarded_wait")
                  [] OTHER -> out'.raised = ""]_vars

\* C37: the emails delivered to a member since the record was created or
\* overwritten never exceed the record's email_send_limit and equal its
\* email_send_count, also while dispatches for the member are in progress
\* at the same time.
C37_DeliveriesWithinLimit ==
    \A m \in Members :
        IF m \in DOMAIN db
        THEN /\ deliveries[m] <= db[m].max_email_attempts
             /\ deliveries[m] = db[m].email_attempts
        ELSE deliveries[m] = 0

\* Moderator commands on member m that have passed the check and are
\* suspended at an await.
InFlight(m, ops) ==
    {i \in TaskIds : /\ tasks[i] # None
                     /\ tasks[i][1].ev.m = m
                     /\ tasks[i][1].ev.op \in ops}

\* The record of m is a submission a moderator can decide.
Submitted(store, m) ==
    /\ m \in DOMAIN store
    /\ ~store[m].id_ver
    /\ store[m].ver_state = AWAIT_APPROVAL

\* C36: approve and reject on the same pending member exclude each other
\* also when handled at the same time.  A command writes the record only in
\* the segment that made its check, so on a submission that is undecided at
\* that moment, and its write decides the submission: approve sets
\* identity_verified and the exec, reject sets the state to null and leaves
\* identity_verified false.  No later segment of a command writes, and only
\* an ID message of the member makes a submission.  Hence at most one
\* command takes effect per submission, no reject takes effect on a record
\* an approve has verified, never two approves are past their check at
\* once, and the role is granted by the approve that wrote.
C36_ApproveRejectExclusive ==
    [][\A m \in Members :
          /\ (ev'.m = m /\ ev'.op \in {"approve", "reject"}) =>
                /\ out'.writes > 0 =>
                      /\ Submitted(db, m)
                      /\ ~Submitted(db', m)
                      /\ \E i \in TaskIds : tasks[i] = None /\ tasks'[i] # None
                      /\ db'[m] = IF ev'.op = "approve"
                                  THEN [db[m] EXCEPT !.id_ver = TRUE,
                                                     !.ver_exec = ev'.by]
                                  ELSE [db[m] EXCEPT !.ver_state = NoState]
                /\ out'.writes = 0 => db' = db
                /\ out'.granted =>
                      /\ ev'.op = "approve"
                      /\ db'[m].id_ver
                      /\ ~roles[m]
          /\ Cardinality(InFlight(m, {"approve"})') <= 1
          /\ (~Submitted(db, m) /\ Submitted(db', m)) =>
                ev'.op = "message" /\ ev'.natt > 0]_vars

\* C36 witness: an approve and a reject on the member in AWAIT_APPROVAL were
\* started one after the other before either had finished; the first one
\* has taken effect and is still suspended, the second one has been refused.
C36_Witness ==
    \E m \in Members :
        /\ ev.op = "reject" /\ ev.m = m
        /\ out.raised = "That user is already verified."
        /\ InFlight(m, {"approve"}) # {}
        /\ m \in DOMAIN db
        /\ db[m].id_ver /\ db[m].ver_state = AWAIT_APPROVAL
        /\ ~roles[m]

====
